---- MODULE Spec2Model ----
(***************************************************************************)
(* agora: an HTTP/1.1 reverse proxy.                                       *)
(*                                                                         *)
(* agora-http-parser/src/lib.rs : byte scanners, Request/Response parser   *)
(*                                and serializer                           *)
(* agora-proxy/src/server.rs    : Server::process, the header-read loop,   *)
(*                                the router and the body relay            *)
(*                                                                         *)
(* A byte is a one-symbol string; a buffer is a sequence of bytes.         *)
(***************************************************************************)
EXTENDS Integers, Sequences, FiniteSets, TLC

\* ------------------------------------------------------------------------
\* Bytes
\* ------------------------------------------------------------------------
SP == " "
CR == "CR"
LF == "LF"
HT == "HT"
COLON == ":"
\* a byte that is not valid UTF-8 on its own
XFF == "0xFF"
\* the zero byte the buffers are initialised with
NUL == "0x00"

CRLF == <<CR, LF>>

UpperChars == <<"A", "B", "C", "D", "E", "F", "G", "H", "I", "J", "K", "L", "M",
                "N", "O", "P", "Q", "R", "S", "T", "U", "V", "W", "X", "Y", "Z">>
LowerChars == <<"a", "b", "c", "d", "e", "f", "g", "h", "i", "j", "k", "l", "m",
                "n", "o", "p", "q", "r", "s", "t", "u", "v", "w", "x", "y", "z">>
Digits == <<"0", "1", "2", "3", "4", "5", "6", "7", "8", "9">>

\* char::to_lowercase on one ASCII byte
LowerChar(c) ==
    IF \E i \in 1..26 : UpperChars[i] = c
    THEN LowerChars[CHOOSE i \in 1..26 : UpperChars[i] = c]
    ELSE c

\* str::to_lowercase
to_lowercase(s) == [i \in 1..Len(s) |-> LowerChar(s[i])]

IsDigit(c) == \E i \in 1..10 : Digits[i] = c
DigitVal(c) == (CHOOSE i \in 1..10 : Digits[i] = c) - 1

\* char::is_whitespace restricted to the bytes of the model
IsWhitespace(c) == c \in {SP, HT, CR, LF}

\* str::from_utf8 succeeds
IsUtf8(s) == \A i \in 1..Len(s) : s[i] # XFF

\* &buf[k..] with k counted from 0 (the caller guarantees k <= len)
Drop(buf, k) == SubSeq(buf, k + 1, Len(buf))
\* &buf[..k]
Take(buf, k) == SubSeq(buf, 1, k)

StartsWith(s, p) == Len(p) <= Len(s) /\ Take(s, Len(p)) = p

\* str::trim
RECURSIVE TrimStart(_)
TrimStart(s) ==
    IF s # <<>> /\ IsWhitespace(Head(s)) THEN TrimStart(Tail(s)) ELSE s

RECURSIVE TrimEnd(_)
TrimEnd(s) ==
    IF s # <<>> /\ IsWhitespace(s[Len(s)]) THEN TrimEnd(Take(s, Len(s) - 1)) ELSE s

trim(s) == TrimEnd(TrimStart(s))

\* ------------------------------------------------------------------------
\* enum HTTPMethod, enum HTTPVersion and their wire forms
\* ------------------------------------------------------------------------
HTTPMethod == {"GET", "POST", "PUT", "PATCH", "DELETE", "HEAD", "CONNECT", "OPTIONS", "TRACE"}

\* format!("{:?}", method)
MethodDebug(m) ==
    CASE m = "GET" -> <<"G", "E", "T">>
      [] m = "PUT" -> <<"P", "U", "T">>
      [] m = "POST" -> <<"P", "O", "S", "T">>
      [] m = "DELETE" -> <<"D", "E", "L", "E", "T", "E">>
      [] m = "HEAD" -> <<"H", "E", "A", "D">>
      [] m = "PATCH" -> <<"P", "A", "T", "C", "H">>
      [] m = "TRACE" -> <<"T", "R", "A", "C", "E">>
      [] m = "OPTIONS" -> <<"O", "P", "T", "I", "O", "N", "S">>
      [] m = "CONNECT" -> <<"C", "O", "N", "N", "E", "C", "T">>

\* TryFrom<&[u8]> for HTTPMethod
method_try_from(value) ==
    IF \E m \in HTTPMethod : MethodDebug(m) = value
    THEN [ok |-> TRUE, v |-> CHOOSE m \in HTTPMethod : MethodDebug(m) = value]
    ELSE [ok |-> FALSE, err |-> "InvalidMethod"]

HTTPVersion == {"HTTP1_1", "HTTP2", "HTTP3"}

\* Display for HTTPVersion
VersionDisplay(v) ==
    CASE v = "HTTP1_1" -> <<"H", "T", "T", "P", "/", "1", ".", "1">>
      [] v = "HTTP2" -> <<"H", "T", "T", "P", "/", "2">>
      [] v = "HTTP3" -> <<"H", "T", "T", "P", "/", "3">>

\* TryFrom<&[u8]> for HTTPVersion
version_try_from(value) ==
    IF \E v \in HTTPVersion : VersionDisplay(v) = value
    THEN [ok |-> TRUE, v |-> CHOOSE v \in HTTPVersion : VersionDisplay(v) = value]
    ELSE [ok |-> FALSE, err |-> "InvalidVersion"]

\* ------------------------------------------------------------------------
\* Byte scanners (lib.rs)
\* ------------------------------------------------------------------------
\* buf[i..i+2] == CRLF, i counted from 1
CrlfAt(buf, i) == i + 1 <= Len(buf) /\ buf[i] = CR /\ buf[i + 1] = LF

parse_until_space(buf) ==
    IF \E i \in 1..Len(buf) : buf[i] = SP
    THEN Take(buf, (CHOOSE i \in 1..Len(buf) :
                        buf[i] = SP /\ \A j \in 1..(i - 1) : buf[j] # SP) - 1)
    ELSE <<>>

parse_until_crlf(buf) ==
    IF \E i \in 1..Len(buf) : CrlfAt(buf, i)
    THEN Take(buf, (CHOOSE i \in 1..Len(buf) :
                        CrlfAt(buf, i) /\ \A j \in 1..(i - 1) : ~CrlfAt(buf, j)) - 1)
    ELSE <<>>

is_terminated(buf) ==
    \E i \in 1..(Len(buf) - 3) : SubSeq(buf, i, i + 3) = <<CR, LF, CR, LF>>

\* ------------------------------------------------------------------------
\* Parser results: [ok |-> TRUE, ...] or [ok |-> FALSE, err |-> e].
\* err = "Panic" is a slice index out of range.
\* ------------------------------------------------------------------------
Err(e) == [ok |-> FALSE, err |-> e]

\* enum HTTPParseError
HTTPParseError ==
    {"InvalidMethod", "InvalidPath", "InvalidVersion", "InvalidStatusCode", "InvalidHeader",
     "UnterminatedHeader"}

\* Headers = HashMap<String, String>: a function from the keys to the values
EmptyHeaders == [k \in {} |-> <<>>]
InsertIfAbsent(h, k, v) == [x \in (DOMAIN h) \cup {k} |-> IF x \in DOMAIN h THEN h[x] ELSE v]

Insert(h, k, v) == [x \in (DOMAIN h) \cup {k} |-> IF x = k THEN v ELSE h[x]]

\* parse_header: the loop runs i over 0..buf.len()-1, remembering the index
\* of the last ':' seen so far, and returns at the first CRLF.
RECURSIVE parse_header_from(_, _, _)
parse_header_from(buf, i, sep) ==
    IF i > Len(buf) - 1 THEN Err("UnterminatedHeader")
    ELSE LET sep2 == IF buf[i] = COLON THEN i ELSE sep
         IN  IF CrlfAt(buf, i)
             THEN IF sep2 # 0
                  THEN IF ~IsUtf8(Take(buf, sep2 - 1)) THEN Err("InvalidHeader")
                       ELSE IF ~IsUtf8(SubSeq(buf, sep2 + 1, i - 1)) THEN Err("InvalidHeader")
                       ELSE [ok |-> TRUE,
                             key |-> Take(buf, sep2 - 1),
                             value |-> trim(SubSeq(buf, sep2 + 1, i - 1)),
                             rest |-> Drop(buf, i + 1)]
                  ELSE Err("UnterminatedHeader")
             ELSE parse_header_from(buf, i + 1, sep2)

parse_header(buf) == parse_header_from(buf, 1, 0)

RECURSIVE parse_headers_loop(_, _)
parse_headers_loop(buf, headers) ==
    IF Len(buf) >= 2 /\ Take(buf, 2) # CRLF
    THEN LET r == parse_header(buf)
         IN  IF r.ok
             THEN parse_headers_loop(r.rest, Insert(headers, r.key, r.value))
             ELSE r
    ELSE IF Len(buf) < 2 THEN Err("UnterminatedHeader")
    ELSE [ok |-> TRUE, headers |-> headers, rest |-> Drop(buf, 2)]

parse_headers(buf) == parse_headers_loop(buf, EmptyHeaders)

\* Request::parse_method
parse_method(buf) ==
    LET method == parse_until_space(buf)
        m == method_try_from(method)
    IN  IF ~m.ok THEN m
        ELSE [ok |-> TRUE, method |-> m.v, rest |-> Drop(buf, Len(method) + 1)]

parse_path(buf) ==
    LET path == parse_until_space(buf)
    IN  IF ~IsUtf8(path) THEN Err("InvalidPath")
        ELSE IF path = <<>> \/ ~StartsWith(path, <<"/">>) THEN Err("InvalidPath")
        ELSE [ok |-> TRUE, path |-> path, rest |-> Drop(buf, Len(path) + 1)]

\* Request::parse_version
request_parse_version(buf) ==
    LET version == parse_until_crlf(buf)
        v == version_try_from(version)
    IN  IF ~v.ok THEN v
        ELSE [ok |-> TRUE, version |-> v.v, rest |-> Drop(buf, Len(version) + 2)]

\* Request::parse (parse_request_line, then parse_headers)
RequestParse(buf) ==
    LET m == parse_method(buf)
    IN  IF ~m.ok THEN m
        ELSE LET p == parse_path(m.rest)
             IN  IF ~p.ok THEN p
                 ELSE LET v == request_parse_version(p.rest)
                      IN  IF ~v.ok THEN v
                          ELSE LET h == parse_headers(v.rest)
                               IN  IF ~h.ok THEN h
                                   ELSE [ok |-> TRUE,
                                         msg |-> [path |-> p.path,
                                                  method |-> m.method,
                                                  headers |-> h.headers,
                                                  version |-> v.version],
                                         rest |-> h.rest]

\* Response::parse_version
response_parse_version(buf) ==
    LET version == parse_until_space(buf)
        v == version_try_from(version)
    IN  IF ~v.ok THEN v
        ELSE [ok |-> TRUE, version |-> v.v, rest |-> Drop(buf, Len(version) + 1)]

\* StatusCode::from_bytes: three digits, the first one not 0
parse_status(buf) ==
    LET status == parse_until_space(buf)
    IN  IF Len(status) = 3 /\ (\A i \in 1..3 : IsDigit(status[i])) /\ status[1] # "0"
        THEN [ok |-> TRUE,
              status |-> 100 * DigitVal(status[1]) + 10 * DigitVal(status[2])
                         + DigitVal(status[3]),
              rest |-> Drop(buf, Len(status) + 1)]
        ELSE Err("InvalidStatusCode")

\* Response::parse_status_line; &buf[reason.len() + 2..] is out of range
\* when fewer than reason.len() + 2 bytes are left
parse_status_line(buf) ==
    LET v == response_parse_version(buf)
    IN  IF ~v.ok THEN v
        ELSE LET s == parse_status(v.rest)
             IN  IF ~s.ok THEN s
                 ELSE LET reason == parse_until_crlf(s.rest)
                      IN  IF Len(reason) + 2 > Len(s.rest) THEN Err("Panic")
                          ELSE [ok |-> TRUE, version |-> v.version, status |-> s.status,
                                rest |-> Drop(s.rest, Len(reason) + 2)]

\* Response::parse
ResponseParse(buf) ==
    LET l == parse_status_line(buf)
    IN  IF ~l.ok THEN l
        ELSE LET h == parse_headers(l.rest)
             IN  IF ~h.ok THEN h
                 ELSE [ok |-> TRUE,
                       msg |-> [status |-> l.status,
                                version |-> l.version,
                                headers |-> h.headers],
                       rest |-> h.rest]

\* ------------------------------------------------------------------------
\* Message serializer (lib.rs)
\* ------------------------------------------------------------------------
\* StatusCode::as_u16 printed in decimal (codes are 100..999)
StatusDigits(n) ==
    <<Digits[(n \div 100) + 1], Digits[((n \div 10) % 10) + 1], Digits[(n % 10) + 1]>>

\* StatusCode::canonical_reason().unwrap_or("Unknown Reason")
canonical_reason(n) ==
    CASE n = 200 -> <<"O", "K">>
      [] n = 400 -> <<"B", "a", "d", SP, "R", "e", "q", "u", "e", "s", "t">>
      [] n = 404 -> <<"N", "o", "t", SP, "F", "o", "u", "n", "d">>
      [] n = 431 -> <<"R", "e", "q", "u", "e", "s", "t", SP, "H", "e", "a", "d", "e", "r", SP,
                      "F", "i", "e", "l", "d", "s", SP, "T", "o", "o", SP, "L", "a", "r", "g", "e">>
      [] n = 502 -> <<"B", "a", "d", SP, "G", "a", "t", "e", "w", "a", "y">>
      [] n = 505 -> <<"H", "T", "T", "P", SP, "V", "e", "r", "s", "i", "o", "n", SP,
                      "N", "o", "t", SP, "S", "u", "p", "p", "o", "r", "t", "e", "d">>
      [] OTHER -> <<"U", "n", "k", "n", "o", "w", "n", SP, "R", "e", "a", "s", "o", "n">>

\* The orders in which iterating a HashMap can yield its keys
IterOrders(h) ==
    {o \in [1..Cardinality(DOMAIN h) -> DOMAIN h] : \A k \in DOMAIN h : \E i \in DOMAIN o : o[i] = k}

\* for (key, value) in &self.headers { push_str(format!("{}: {}\r\n", key, value)) }
RECURSIVE HeaderLines(_, _)
HeaderLines(h, order) ==
    IF order = <<>> THEN <<>>
    ELSE Head(order) \o <<COLON, SP>> \o h[Head(order)] \o CRLF \o HeaderLines(h, Tail(order))

\* Request::into_bytes, the headers iterated in the given order
RequestIntoBytes(r, order) ==
    MethodDebug(r.method) \o <<SP>> \o r.path \o <<SP>> \o VersionDisplay(r.version) \o CRLF
        \o HeaderLines(r.headers, order) \o CRLF

\* Response::into_bytes, the headers iterated in the given order
ResponseIntoBytes(r, order) ==
    VersionDisplay(r.version) \o <<SP>> \o StatusDigits(r.status) \o <<SP>>
        \o canonical_reason(r.status) \o CRLF
        \o HeaderLines(r.headers, order) \o CRLF

\* Response::new
ResponseNew(status) == [status |-> status, version |-> "HTTP1_1", headers |-> EmptyHeaders]

\* Response::header
ResponseHeader(r, key, value) == [r EXCEPT !.headers = Insert(r.headers, key, value)]

\* ------------------------------------------------------------------------
\* Bounds of the model
\* ------------------------------------------------------------------------
\* capacity of the header buffer (MAX_BUF_SIZE = 4096 * 2 in server.rs), scaled down
MAX_BUF_SIZE == 72
\* capacity of the body relay buffer ([0; 4096] in proxy_body), scaled down
BodyBufSize == 9
\* a read returns 1..MaxRead bytes, or everything that is available
MaxRead == 2

Min(a, b) == IF a < b THEN a ELSE b
Max(a, b) == IF a > b THEN a ELSE b

\* The byte counts a read can return when avail bytes are in flight and the
\* slice handed to read() has room bytes
ReadSizes(avail, room) ==
    {n \in 1..Min(avail, room) : n <= MaxRead \/ n = Min(avail, room)}

\* ------------------------------------------------------------------------
\* Router and path rewriting (Server::process)
\* ------------------------------------------------------------------------
\* str::replace(pat, ""): every non-overlapping match, left to right, is removed
RECURSIVE ReplaceWithEmpty(_, _)
ReplaceWithEmpty(s, pat) ==
    IF s = <<>> \/ pat = <<>> THEN s
    ELSE IF StartsWith(s, pat) THEN ReplaceWithEmpty(Drop(s, Len(pat)), pat)
    ELSE <<Head(s)>> \o ReplaceWithEmpty(Tail(s), pat)

\* if entry.strip_prefix { path = path.replace(&prefix, ""); if !path.starts_with('/') { path.insert(0, '/') } }
StripPrefix(path, prefix) ==
    LET replaced == ReplaceWithEmpty(path, prefix)
    IN  IF StartsWith(replaced, <<"/">>) THEN replaced ELSE <<"/">> \o replaced

\* Variant of SelectEntry: the path is compared with == instead of starts_with
SelectEntryExact(table, order, path) ==
    LET hits == {i \in 1..Len(order) : path = table[order[i]].prefix}
    IN  IF hits = {} THEN 0
        ELSE order[CHOOSE i \in hits : \A j \in hits : i <= j]

\* for (prefix, entry) in config.reverse_proxy_mapping: the first entry, in
\* the order the iteration yields them, whose prefix the path starts with
\* (0 when there is none). order is a sequence of indices into table.
SelectEntry(table, order, path) ==
    LET hits == {i \in 1..Len(order) : StartsWith(path, table[order[i]].prefix)}
    IN  IF hits = {} THEN 0
        ELSE order[CHOOSE i \in hits : \A j \in hits : i <= j]

\* The orders in which iterating the HashMap of routes can yield its entries
RouteIterOrders(table) ==
    {o \in [1..Len(table) -> 1..Len(table)] : \A k \in 1..Len(table) : \E i \in 1..Len(table) : o[i] = k}

\* ------------------------------------------------------------------------
\* Header names and values the proxy looks up or writes (server.rs literals)
\* ------------------------------------------------------------------------
CONTENT_LENGTH == <<"c", "o", "n", "t", "e", "n", "t", "-", "l", "e", "n", "g", "t", "h">>
TRANSFER_ENCODING == <<"t", "r", "a", "n", "s", "f", "e", "r", "-",
                       "e", "n", "c", "o", "d", "i", "n", "g">>
X_FORWARDED_FOR == <<"X", "-", "F", "o", "r", "w", "a", "r", "d", "e", "d", "-", "F", "o", "r">>
CONNECTION == <<"C", "o", "n", "n", "e", "c", "t", "i", "o", "n">>
CLOSE == <<"c", "l", "o", "s", "e">>
CHUNKED == <<"c", "h", "u", "n", "k", "e", "d">>

\* ------------------------------------------------------------------------
\* Inputs: route tables, the client's byte stream, the backend's byte stream
\* ------------------------------------------------------------------------
\* client_addr.to_string(): the peer ip:port of the client
ClientAddr == <<"1", ".", "2", COLON, "9">>

\* ServerConfig.reverse_proxy_mapping in the order the routes were configured
Configs ==
    { <<>>,
      << [prefix |-> <<"/", "a">>, addr |-> "B1", strip_prefix |-> TRUE] >>,
      << [prefix |-> <<"/", "a">>, addr |-> "B1", strip_prefix |-> TRUE],
         [prefix |-> <<"/">>, addr |-> "B2", strip_prefix |-> FALSE] >> }

ReqLine(method, path, version) == method \o <<SP>> \o path \o <<SP>> \o version \o CRLF
StatusLine(version, code, reason) == version \o <<SP>> \o code \o <<SP>> \o reason \o CRLF
Hdr(name, value) == name \o <<COLON, SP>> \o value \o CRLF

Get(path) == ReqLine(<<"G", "E", "T">>, path, <<"H", "T", "T", "P", "/", "1", ".", "1">>)
Ok200 == StatusLine(<<"H", "T", "T", "P", "/", "1", ".", "1">>, <<"2", "0", "0">>, <<"O", "K">>)

ContentLengthMixed == <<"C", "o", "n", "t", "e", "n", "t", "-", "L", "e", "n", "g", "t", "h">>
TransferEncodingMixed == <<"T", "r", "a", "n", "s", "f", "e", "r", "-",
                           "E", "n", "c", "o", "d", "i", "n", "g">>

\* a chunked body: one chunk "a", then the last chunk
ChunkedBody == <<"1", CR, LF, "a", CR, LF, "0", CR, LF, CR, LF>>

Pad(n) == [i \in 1..n |-> "b"]

\* [0; n]
ZeroBuf(n) == [i \in 1..n |-> NUL]

ClientStreams ==
    { \* no headers, no body; the paths exercise the router
      Get(<<"/">>) \o CRLF,
      Get(<<"/", "a">>) \o CRLF,
      Get(<<"/", "a", "/", "a">>) \o CRLF,
      \* body after the head, no framing header
      Get(<<"/">>) \o CRLF \o <<"h", "i">>,
      \* other versions and malformed heads
      ReqLine(<<"G", "E", "T">>, <<"/">>, <<"H", "T", "T", "P", "/", "2">>) \o CRLF,
      ReqLine(<<"G", "O", "T">>, <<"/">>, <<"H", "T", "T", "P", "/", "1", ".", "1">>) \o CRLF,
      Get(<<"/">>) \o <<"H", "o", "s", "t">> \o CRLF \o CRLF,
      Get(<<"/">>) \o Hdr(<<"a">>, <<"b">>),
      \* content-length framing
      Get(<<"/">>) \o Hdr(CONTENT_LENGTH, <<"2">>) \o CRLF \o <<"h", "i">>,
      Get(<<"/">>) \o Hdr(CONTENT_LENGTH, <<"2">>) \o CRLF \o <<"h", "i", "!", "?">>,
      Get(<<"/">>) \o Hdr(CONTENT_LENGTH, <<"2">>) \o CRLF \o <<"h">>,
      Get(<<"/">>) \o Hdr(ContentLengthMixed, <<"2">>) \o CRLF \o <<"h", "i">>,
      Get(<<"/">>) \o Hdr(CONTENT_LENGTH, <<"x">>) \o CRLF,
      \* chunked framing
      Get(<<"/">>) \o Hdr(TRANSFER_ENCODING, CHUNKED) \o CRLF \o ChunkedBody,
      \* both framing headers
      Get(<<"/">>) \o Hdr(CONTENT_LENGTH, <<"5">>) \o Hdr(TRANSFER_ENCODING, CHUNKED) \o CRLF,
      Get(<<"/">>) \o Hdr(ContentLengthMixed, <<"5">>) \o Hdr(TransferEncodingMixed, CHUNKED) \o CRLF,
      \* X-Forwarded-For supplied by the client
      Get(<<"/">>) \o Hdr(to_lowercase(X_FORWARDED_FOR), <<"e">>) \o CRLF,
      Get(<<"/">>) \o Hdr(X_FORWARDED_FOR, <<"e">>) \o CRLF,
      \* a head that fills the buffer exactly, and one that does not fit
      Get(<<"/">>) \o <<"a", COLON>> \o Pad(MAX_BUF_SIZE - 22) \o CRLF \o CRLF,
      Get(<<"/">>) \o <<"a", COLON>> \o Pad(MAX_BUF_SIZE - 17) }

BackendStreams ==
    { Ok200 \o Hdr(CONTENT_LENGTH, <<"2">>) \o CRLF \o <<"o", "k">>,
      Ok200 \o Hdr(CONTENT_LENGTH, <<"2">>) \o CRLF \o <<"o">>,
      Ok200 \o Hdr(ContentLengthMixed, <<"2">>) \o CRLF \o <<"o">>,
      \* a header value with a colon in it, as in Date: or Location:
      Ok200 \o Hdr(<<"d">>, <<"1", COLON, "2">>) \o CRLF,
      Ok200 \o CRLF \o <<"o", "k">>,
      Ok200 \o Hdr(TRANSFER_ENCODING, CHUNKED) \o CRLF \o ChunkedBody,
      Ok200 \o Hdr(CONTENT_LENGTH, <<"2">>) \o Hdr(TRANSFER_ENCODING, CHUNKED) \o CRLF,
      StatusLine(<<"H", "T", "T", "P", "/", "1", ".", "1">>, <<"9", "9">>, <<"X">>) \o CRLF,
      <<>> }

\* ------------------------------------------------------------------------
\* State of one connection task (Server::process)
\* ------------------------------------------------------------------------
VARIABLES
    config,             \* ServerConfig.reverse_proxy_mapping, as configured
    pc,                 \* where the task is
    client_in,          \* bytes sent by the client, not yet read by the proxy
    server_in,          \* bytes sent by the backend, not yet read by the proxy
    client_out,         \* bytes the proxy wrote to the client
    server_out,         \* bytes the proxy wrote to the backend
    buf,                \* process: buf
    total_bytes_read,   \* read_message_into_buffer: total_bytes_read
    recent_bytes_read,  \* read_message_into_buffer: recent_bytes_read
    request,            \* process: request
    remaining,          \* the residual bytes after the head (remaining_body / remaining)
    entry,              \* index in config of the selected route, 0 when none
    dialed,             \* addresses TcpStream::connect was called with, in order
    direction,          \* proxy_body: direction
    headers,            \* proxy_body: headers
    body_buf,           \* proxy_body: buf
    bytes_read,         \* proxy_body: bytes_read of the chunked loop
    bytes_written,      \* proxy_body: bytes_written of the content-length loop
    length,             \* proxy_body: length
    client_heads,       \* the Responses written to the client: who made them (proxy
                        \* or backend), their bytes and the bytes written with them
    server_heads,       \* the Requests written to the backend, likewise
    failure,            \* the error that ended the task, "none" so far
    closed              \* the peers that have shut down their side of the stream

cfg_vars == <<config>>
net_vars == <<client_in, server_in, client_out, server_out>>
hdr_vars == <<buf, total_bytes_read, recent_bytes_read>>
req_vars == <<request, remaining, entry, dialed>>
body_vars == <<direction, headers, body_buf, bytes_read, bytes_written, length>>
log_vars == <<client_heads, server_heads, failure>>
vars == <<config, pc, client_in, server_in, client_out, server_out,
          buf, total_bytes_read, recent_bytes_read, request, remaining, entry, dialed,
          direction, headers, body_buf, bytes_read, bytes_written, length,
          client_heads, server_heads, failure, closed>>

NoRequest == [path |-> <<>>, method |-> "GET", headers |-> EmptyHeaders, version |-> "HTTP1_1"]

Init ==
    /\ config \in Configs
    /\ pc = "read_request"
    /\ client_in \in ClientStreams
    /\ server_in = <<>>
    /\ client_out = <<>>
    /\ server_out = <<>>
    /\ buf = ZeroBuf(MAX_BUF_SIZE)
    /\ total_bytes_read = 0
    /\ recent_bytes_read = 0
    /\ request = NoRequest
    /\ remaining = <<>>
    /\ entry = 0
    /\ dialed = <<>>
    /\ direction = "ClientToServer"
    /\ headers = EmptyHeaders
    /\ body_buf = ZeroBuf(BodyBufSize)
    /\ bytes_read = 0
    /\ bytes_written = 0
    /\ length = 0
    /\ client_heads = <<>>
    /\ server_heads = <<>>
    /\ failure = "none"
    /\ closed = {"client"}

\* ------------------------------------------------------------------------
\* close_connection_with_reason / send_response
\* ------------------------------------------------------------------------
\* let mut response = Response::new(status_code); response.header("Connection", "close")
ErrorResponse(status) == ResponseHeader(ResponseNew(status), CONNECTION, CLOSE)

\* The task returns: its buffer and its two sockets are dropped, and what was
\* in flight towards the proxy is never read
TaskEnds ==
    /\ buf' = ZeroBuf(MAX_BUF_SIZE)
    /\ client_in' = <<>>
    /\ server_in' = <<>>
    /\ pc' = "done"

\* The task answers the client with an error response and ends
CloseConnectionWithReason(status, why) ==
    /\ \E order \in IterOrders(ErrorResponse(status).headers) :
          LET head == ResponseIntoBytes(ErrorResponse(status), order)
          IN  /\ client_out' = client_out \o head
              /\ client_heads' = Append(client_heads,
                                        [origin |-> "proxy", response |-> ErrorResponse(status),
                                         head |-> head, body |-> <<>>])
    /\ failure' = why
    /\ TaskEnds

\* The task ends without writing anything to the client
CloseSilently(why) ==
    /\ UNCHANGED <<client_out, client_heads>>
    /\ failure' = why
    /\ TaskEnds

\* ------------------------------------------------------------------------
\* read_message_into_buffer, reading the client (read_request) or the
\* backend (read_response)
\* ------------------------------------------------------------------------
ReadingHeader == pc \in {"read_request", "read_response"}

\* &buf[(total - recent).min(total.saturating_sub(4)) .. total]
ScanWindow ==
    SubSeq(buf,
           Min(total_bytes_read - recent_bytes_read, Max(total_bytes_read - 4, 0)) + 1,
           total_bytes_read)

\* the condition of the while loop
HeaderLoopContinues == ~is_terminated(ScanWindow)

\* buf[at..at + Len(data)] = data, at counted from 0
WriteAt(b, at, data) ==
    [i \in 1..Len(b) |-> IF at < i /\ i <= at + Len(data) THEN data[i - at] ELSE b[i]]

\* Variant of ReadMessageData: the whole buffer is handed to read, not the
\* part of it after total_bytes_read
ReadMessageDataWholeBuffer ==
    /\ ReadingHeader
    /\ HeaderLoopContinues
    /\ LET stream == IF pc = "read_request" THEN client_in ELSE server_in
       IN  \E n \in ReadSizes(Len(stream), MAX_BUF_SIZE) :
              /\ buf' = WriteAt(buf, 0, Take(stream, n))
              /\ total_bytes_read' = total_bytes_read + n
              /\ recent_bytes_read' = n
              /\ IF pc = "read_request"
                 THEN client_in' = Drop(client_in, n) /\ UNCHANGED server_in
                 ELSE server_in' = Drop(server_in, n) /\ UNCHANGED client_in
    /\ UNCHANGED <<cfg_vars, closed, pc, client_out, server_out, req_vars, body_vars, log_vars>>

\* stream.read(&mut buf[total_bytes_read..]) returns Ok(n), n > 0
ReadMessageData ==
    /\ ReadingHeader
    /\ HeaderLoopContinues
    /\ total_bytes_read < MAX_BUF_SIZE
    /\ LET stream == IF pc = "read_request" THEN client_in ELSE server_in
       IN  \E n \in ReadSizes(Len(stream), MAX_BUF_SIZE - total_bytes_read) :
              /\ buf' = WriteAt(buf, total_bytes_read, Take(stream, n))
              /\ total_bytes_read' = total_bytes_read + n
              /\ recent_bytes_read' = n
              /\ IF pc = "read_request"
                 THEN client_in' = Drop(client_in, n) /\ UNCHANGED server_in
                 ELSE server_in' = Drop(server_in, n) /\ UNCHANGED client_in
    /\ UNCHANGED <<cfg_vars, closed, pc, client_out, server_out, req_vars, body_vars, log_vars>>

\* Variant of ReadMessageEof: UnexpectedEof falls into the arm of the network
\* errors and the task returns without a response
ReadMessageEofUnanswered ==
    /\ ReadingHeader
    /\ HeaderLoopContinues
    /\ total_bytes_read < MAX_BUF_SIZE
    /\ IF pc = "read_request"
       THEN client_in = <<>> /\ "client" \in closed /\ CloseSilently("client_eof")
       ELSE server_in = <<>> /\ "server" \in closed
                             /\ CloseConnectionWithReason(502, "server_eof")
    /\ total_bytes_read' = 0
    /\ recent_bytes_read' = 0
    /\ UNCHANGED <<cfg_vars, closed, server_out, req_vars, body_vars, server_heads>>

\* stream.read returns Ok(0): the peer has sent everything and closed.
\* read_request fails with UnexpectedEof -> 400; proxy_response fails -> 502
ReadMessageEof ==
    /\ ReadingHeader
    /\ HeaderLoopContinues
    /\ total_bytes_read < MAX_BUF_SIZE
    /\ IF pc = "read_request"
       THEN client_in = <<>> /\ "client" \in closed
                             /\ CloseConnectionWithReason(400, "client_eof")
       ELSE server_in = <<>> /\ "server" \in closed
                             /\ CloseConnectionWithReason(502, "server_eof")
    /\ total_bytes_read' = 0
    /\ recent_bytes_read' = 0
    /\ UNCHANGED <<cfg_vars, closed, server_out, req_vars, body_vars, server_heads>>

\* stream.read returns Err(e) of another kind.
\* read_request: the task returns without a response; proxy_response -> 502
ReadMessageIoError ==
    /\ ReadingHeader
    /\ HeaderLoopContinues
    /\ total_bytes_read < MAX_BUF_SIZE
    /\ IF pc = "read_request"
       THEN CloseSilently("client_io")
       ELSE CloseConnectionWithReason(502, "server_io")
    /\ total_bytes_read' = 0
    /\ recent_bytes_read' = 0
    /\ UNCHANGED <<cfg_vars, closed, server_out, req_vars, body_vars, server_heads>>

\* Variant of HeaderTooLarge: the size of the buffer is tested before the
\* terminator is looked for
HeaderTooLargeBeforeScan ==
    /\ ReadingHeader
    /\ total_bytes_read >= MAX_BUF_SIZE
    /\ IF pc = "read_request"
       THEN CloseConnectionWithReason(431, "header_too_large")
       ELSE CloseConnectionWithReason(502, "header_too_large")
    /\ total_bytes_read' = 0
    /\ recent_bytes_read' = 0
    /\ UNCHANGED <<cfg_vars, closed, server_out, req_vars, body_vars, server_heads>>

\* total_bytes_read >= buf.len(): Err(OutOfMemory).
\* read_request -> 431; proxy_response -> 502
HeaderTooLarge ==
    /\ ReadingHeader
    /\ HeaderLoopContinues
    /\ total_bytes_read >= MAX_BUF_SIZE
    /\ IF pc = "read_request"
       THEN CloseConnectionWithReason(431, "header_too_large")
       ELSE CloseConnectionWithReason(502, "header_too_large")
    /\ total_bytes_read' = 0
    /\ recent_bytes_read' = 0
    /\ UNCHANGED <<cfg_vars, closed, server_out, req_vars, body_vars, server_heads>>

\* read_request: the loop has ended with Ok(total_bytes_read);
\* Request::parse(&buf[..total_bytes_read]), a ParseError -> InvalidData -> 400
ReadRequestDone ==
    /\ pc = "read_request"
    /\ ~HeaderLoopContinues
    /\ LET r == RequestParse(Take(buf, total_bytes_read))
       IN  IF r.ok
           THEN /\ request' = r.msg
                /\ remaining' = r.rest
                /\ pc' = "route"
                /\ UNCHANGED <<client_in, server_in, buf, client_out, log_vars>>
           ELSE /\ CloseConnectionWithReason(400, "invalid_data")
                /\ UNCHANGED <<request, remaining, server_heads>>
    /\ total_bytes_read' = 0
    /\ recent_bytes_read' = 0
    /\ UNCHANGED <<cfg_vars, closed, server_out, entry, dialed, body_vars>>

\* ------------------------------------------------------------------------
\* Server::process after the request was read
\* ------------------------------------------------------------------------
\* Variant of Route: the version of the request is not looked at
RouteAnyVersion ==
    /\ pc = "route"
    /\ \E iter_order \in RouteIterOrders(config) :
          LET e == SelectEntry(config, iter_order, request.path)
          IN  IF e = 0
              THEN /\ CloseConnectionWithReason(404, "no_route")
                   /\ UNCHANGED entry
              ELSE /\ entry' = e
                   /\ pc' = "connect"
                   /\ UNCHANGED <<client_in, server_in, buf, client_out, client_heads,
                                  failure>>
    /\ UNCHANGED <<cfg_vars, closed, server_out, total_bytes_read, recent_bytes_read, request,
                   remaining, dialed, body_vars, server_heads>>

\* the version check, then the for loop over the mapping up to the connect;
\* the HashMap yields its entries in an order of its own
Route ==
    /\ pc = "route"
    /\ IF request.version # "HTTP1_1"
       THEN /\ CloseConnectionWithReason(505, "version")
            /\ UNCHANGED entry
       ELSE \E iter_order \in RouteIterOrders(config) :
            LET e == SelectEntry(config, iter_order, request.path)
            IN  IF e = 0
                THEN /\ CloseConnectionWithReason(404, "no_route")
                     /\ UNCHANGED entry
                ELSE /\ entry' = e
                     /\ pc' = "connect"
                     /\ UNCHANGED <<client_in, server_in, buf, client_out, client_heads,
                                    failure>>
    /\ UNCHANGED <<cfg_vars, closed, server_out, total_bytes_read, recent_bytes_read, request,
                   remaining, dialed, body_vars, server_heads>>

\* TcpStream::connect(&entry.addr) succeeds; then the prefix is stripped
Connect ==
    /\ pc = "connect"
    /\ dialed' = Append(dialed, config[entry].addr)
    /\ request' = IF config[entry].strip_prefix
                  THEN [request EXCEPT !.path = StripPrefix(request.path, config[entry].prefix)]
                  ELSE request
    /\ pc' = "proxy_request"
    /\ UNCHANGED <<cfg_vars, closed, net_vars, hdr_vars, remaining, entry, body_vars, log_vars>>

\* Variant of ConnectFails: the failed connect leaves the loop without
\* returning and the task goes on to the 404 after the loop
ConnectFailsNotFound ==
    /\ pc = "connect"
    /\ dialed' = Append(dialed, config[entry].addr)
    /\ CloseConnectionWithReason(404, "dial")
    /\ UNCHANGED <<cfg_vars, closed, server_out, total_bytes_read, recent_bytes_read, request,
                   remaining, entry, body_vars, server_heads>>

\* TcpStream::connect(&entry.addr) fails -> 502
ConnectFails ==
    /\ pc = "connect"
    /\ dialed' = Append(dialed, config[entry].addr)
    /\ CloseConnectionWithReason(502, "dial")
    /\ UNCHANGED <<cfg_vars, closed, server_out, total_bytes_read, recent_bytes_read, request,
                   remaining, entry, body_vars, server_heads>>

\* A failure of proxy_request: InvalidData -> 400, anything else -> 502.
\* A failure of proxy_response -> 502.
BodyFails(kind, why) ==
    IF direction = "ClientToServer" /\ kind = "InvalidData"
    THEN CloseConnectionWithReason(400, why)
    ELSE CloseConnectionWithReason(502, why)

\* proxy_request up to the call of proxy_body: the x-forwarded-for header is
\* inserted when peer_addr() is Ok, the head and the residual bytes are written
ProxyRequest ==
    /\ pc = "proxy_request"
    /\ \E peer_addr_ok \in BOOLEAN :
          LET req == IF peer_addr_ok
                     THEN [request EXCEPT !.headers =
                               Insert(request.headers, to_lowercase(X_FORWARDED_FOR), ClientAddr)]
                     ELSE request
          IN  /\ request' = req
              /\ \/ /\ \E order \in IterOrders(req.headers) :
                          LET head == RequestIntoBytes(req, order)
                          IN  /\ server_out' = server_out \o head \o remaining
                              /\ server_heads' = Append(server_heads,
                                                        [request |-> req,
                                                         peer_addr_ok |-> peer_addr_ok,
                                                         head |-> head, body |-> remaining])
                    /\ direction' = "ClientToServer"
                    /\ headers' = req.headers
                    /\ pc' = "body"
                    /\ UNCHANGED <<client_in, server_in, buf, client_out, client_heads,
                                   failure>>
                 \/ /\ CloseConnectionWithReason(502, "server_io")
                    /\ UNCHANGED <<server_out, server_heads, direction, headers>>
    /\ UNCHANGED <<cfg_vars, closed, total_bytes_read, recent_bytes_read, remaining, entry, dialed,
                   body_buf, bytes_read, bytes_written, length>>

\* ------------------------------------------------------------------------
\* ProxyConnection::proxy_body
\* ------------------------------------------------------------------------
\* str::split(","): the pieces between the commas
RECURSIVE SplitComma(_, _)
SplitComma(s, piece) ==
    IF s = <<>> THEN {piece}
    ELSE IF Head(s) = "," THEN {piece} \cup SplitComma(Tail(s), <<>>)
    ELSE SplitComma(Tail(s), Append(piece, Head(s)))

\* transfer_encoding.to_lowercase().split(",").any(|value| value.trim() == "chunked")
is_chunked(transfer_encoding) ==
    \E value \in SplitComma(to_lowercase(transfer_encoding), <<>>) : trim(value) = CHUNKED

RECURSIVE DecimalValue(_, _)
DecimalValue(s, acc) ==
    IF s = <<>> THEN acc ELSE DecimalValue(Tail(s), 10 * acc + DigitVal(Head(s)))

\* str::parse::<usize>: an optional '+', then one or more digits; -1 for Err
parse_usize(s) ==
    LET digits == IF s # <<>> /\ Head(s) = "+" THEN Tail(s) ELSE s
    IN  IF digits # <<>> /\ \A i \in 1..Len(digits) : IsDigit(digits[i])
        THEN DecimalValue(digits, 0)
        ELSE -1

\* headers.get(key)
HasHeader(h, key) == key \in DOMAIN h

\* proxy_body returns Ok(()):
\* proxy_request is over and the task goes on to proxy_response, or
\* proxy_response is over and the task ends
BodyOk ==
    /\ IF direction = "ClientToServer"
       THEN pc' = "await_response" /\ UNCHANGED <<client_in, server_in, buf>>
       ELSE TaskEnds
    /\ UNCHANGED <<client_heads, failure>>

\* the sender and the receiver of the relay
Sender == IF direction = "ClientToServer" THEN client_in ELSE server_in
SenderName == IF direction = "ClientToServer" THEN "client" ELSE "server"
ReceiverName == IF direction = "ClientToServer" THEN "server" ELSE "client"

\* sender.read consumed n bytes
SenderRead(n) ==
    IF direction = "ClientToServer"
    THEN client_in' = Drop(client_in, n) /\ UNCHANGED server_in
    ELSE server_in' = Drop(server_in, n) /\ UNCHANGED client_in

\* receiver.write_all(data) succeeded
ReceiverWrite(data) ==
    IF direction = "ClientToServer"
    THEN server_out' = server_out \o data /\ UNCHANGED client_out
    ELSE client_out' = client_out \o data /\ UNCHANGED server_out

\* What proxy_body decides from the headers and the residual bytes before its
\* first read: to fail with InvalidData, to run the chunked loop, to run the
\* content-length loop up to length, or to return at once
Framing(h, remaining_bytes) ==
    IF HasHeader(h, CONTENT_LENGTH) /\ HasHeader(h, TRANSFER_ENCODING)
    THEN [kind |-> "InvalidData", length |-> 0]
    ELSE IF /\ HasHeader(h, TRANSFER_ENCODING)
            /\ is_chunked(h[TRANSFER_ENCODING])
            /\ ~is_terminated(remaining_bytes)
    THEN [kind |-> "chunked", length |-> 0]
    ELSE IF HasHeader(h, CONTENT_LENGTH)
    THEN IF parse_usize(h[CONTENT_LENGTH]) < 0
         THEN [kind |-> "InvalidData", length |-> 0]
         ELSE [kind |-> "content_length", length |-> parse_usize(h[CONTENT_LENGTH])]
    ELSE [kind |-> "none", length |-> 0]

\* the entry of proxy_body, up to the first read
BodyStart ==
    /\ pc = "body"
    /\ body_buf' = ZeroBuf(BodyBufSize)
    /\ LET f == Framing(headers, remaining)
       IN  CASE f.kind = "InvalidData" ->
                  /\ BodyFails("InvalidData", "invalid_data")
                  /\ UNCHANGED <<bytes_read, bytes_written, length>>
             [] f.kind = "chunked" ->
                  /\ bytes_read' = 0
                  /\ pc' = "chunked"
                  /\ UNCHANGED <<client_in, server_in, buf, client_out, client_heads, failure,
                                 bytes_written, length>>
             [] f.kind = "content_length" ->
                  /\ bytes_written' = Len(remaining)
                  /\ length' = f.length
                  /\ pc' = "content_length"
                  /\ UNCHANGED <<client_in, server_in, buf, client_out, client_heads,
                                 failure, bytes_read>>
             [] f.kind = "none" ->
                  /\ BodyOk
                  /\ UNCHANGED <<client_out, bytes_read, bytes_written, length>>
    /\ UNCHANGED <<cfg_vars, closed, server_out, total_bytes_read, recent_bytes_read, req_vars,
                   direction, headers, server_heads>>

\* the condition of the chunked loop: !is_terminated(&buf[..bytes_read + 3])
ChunkedLoopContinues == ~is_terminated(Take(body_buf, bytes_read + 3))

\* buf[0] = buf[n]; buf[1] = buf[n + 1]; buf[2] = buf[n + 2], one after the other
MoveLastThree(b, n) ==
    LET b1 == [b EXCEPT ![1] = b[n + 1]]
        b2 == [b1 EXCEPT ![2] = b1[n + 2]]
    IN  [b2 EXCEPT ![3] = b2[n + 3]]

\* one iteration of the chunked loop: sender.read(&mut buf[3..]) returns
\* Ok(n), the n bytes are written to the receiver, the last 3 bytes move up
ChunkedRead ==
    /\ pc = "chunked"
    /\ ChunkedLoopContinues
    /\ \E n \in ReadSizes(Len(Sender), BodyBufSize - 3) :
          /\ SenderRead(n)
          /\ ReceiverWrite(Take(Sender, n))
          /\ body_buf' = MoveLastThree(WriteAt(body_buf, 3, Take(Sender, n)), n)
          /\ bytes_read' = n
    /\ UNCHANGED <<cfg_vars, closed, pc, hdr_vars, req_vars, direction, headers, bytes_written,
                   length, log_vars>>

\* the chunked loop ends: the terminator was seen
ChunkedDone ==
    /\ pc = "chunked"
    /\ ~ChunkedLoopContinues
    /\ BodyOk
    /\ bytes_read' = 0
    /\ body_buf' = ZeroBuf(BodyBufSize)
    /\ UNCHANGED <<cfg_vars, closed, client_out, server_out, total_bytes_read, recent_bytes_read,
                   req_vars, direction, headers, bytes_written, length, server_heads>>

\* the condition of the content-length loop
ContentLengthLoopContinues == bytes_written < length

\* one iteration of the content-length loop: sender.read(&mut buf) returns
\* Ok(n), the n bytes are written to the receiver
ContentLengthRead ==
    /\ pc = "content_length"
    /\ ContentLengthLoopContinues
    /\ \E n \in ReadSizes(Len(Sender), BodyBufSize) :
          /\ SenderRead(n)
          /\ ReceiverWrite(Take(Sender, n))
          /\ body_buf' = WriteAt(body_buf, 0, Take(Sender, n))
          /\ bytes_written' = bytes_written + n
    /\ UNCHANGED <<cfg_vars, closed, pc, hdr_vars, req_vars, direction, headers, bytes_read,
                   length, log_vars>>

\* the content-length loop ends
ContentLengthDone ==
    /\ pc = "content_length"
    /\ ~ContentLengthLoopContinues
    /\ BodyOk
    /\ body_buf' = ZeroBuf(BodyBufSize)
    /\ bytes_written' = 0
    /\ length' = 0
    /\ UNCHANGED <<cfg_vars, closed, client_out, server_out, total_bytes_read, recent_bytes_read,
                   req_vars, direction, headers, bytes_read, server_heads>>

RelayLoopContinues ==
    \/ pc = "chunked" /\ ChunkedLoopContinues
    \/ pc = "content_length" /\ ContentLengthLoopContinues

\* sender.read returns Ok(0) in either loop: Err(UnexpectedEof)
RelayEof ==
    /\ RelayLoopContinues
    /\ Sender = <<>>
    /\ SenderName \in closed
    /\ BodyFails("UnexpectedEof", SenderName \o "_eof")
    /\ UNCHANGED <<cfg_vars, closed, server_out, total_bytes_read, recent_bytes_read, req_vars,
                   body_vars, server_heads>>

\* sender.read returns Err(e) in either loop
RelayReadError ==
    /\ RelayLoopContinues
    /\ BodyFails("Other", SenderName \o "_io")
    /\ UNCHANGED <<cfg_vars, closed, server_out, total_bytes_read, recent_bytes_read, req_vars,
                   body_vars, server_heads>>

\* sender.read returns Ok(n) and receiver.write_all fails in either loop
RelayWriteError ==
    /\ RelayLoopContinues
    /\ Sender # <<>>
    /\ BodyFails("Other", ReceiverName \o "_io")
    /\ UNCHANGED <<cfg_vars, closed, server_out, total_bytes_read, recent_bytes_read, req_vars,
                   body_vars, server_heads>>

\* ------------------------------------------------------------------------
\* ProxyConnection::proxy_response
\* ------------------------------------------------------------------------
\* the backend answers with one of its byte streams and shuts down its side
BackendRespond ==
    /\ pc = "await_response"
    /\ server_in' \in BackendStreams
    /\ closed' = closed \cup {"server"}
    /\ pc' = "read_response"
    /\ UNCHANGED <<cfg_vars, client_in, client_out, server_out, hdr_vars, req_vars,
                   body_vars, log_vars>>

\* read_response: the loop has ended with Ok(total_bytes_read);
\* Response::parse(&buf[..total_bytes_read]), a ParseError -> InvalidData -> 502;
\* the head and the residual bytes are written to the client
ReadResponseDone ==
    /\ pc = "read_response"
    /\ ~HeaderLoopContinues
    /\ LET r == ResponseParse(Take(buf, total_bytes_read))
       IN  IF r.ok
           THEN \/ /\ \E order \in IterOrders(r.msg.headers) :
                         LET head == ResponseIntoBytes(r.msg, order)
                         IN  /\ client_out' = client_out \o head \o r.rest
                             /\ client_heads' = Append(client_heads,
                                                       [origin |-> "backend", response |-> r.msg,
                                                        head |-> head, body |-> r.rest])
                   /\ direction' = "ServerToClient"
                   /\ headers' = r.msg.headers
                   /\ remaining' = r.rest
                   /\ pc' = "body"
                   /\ UNCHANGED <<client_in, server_in, buf, failure>>
                \/ /\ CloseConnectionWithReason(502, "client_io")
                   /\ UNCHANGED <<direction, headers, remaining>>
           ELSE /\ IF r.err = "Panic"
                   THEN CloseSilently("panic")
                   ELSE CloseConnectionWithReason(502, "invalid_data")
                /\ UNCHANGED <<direction, headers, remaining>>
    /\ total_bytes_read' = 0
    /\ recent_bytes_read' = 0
    /\ UNCHANGED <<cfg_vars, closed, server_out, request, entry, dialed,
                   body_buf, bytes_read, bytes_written, length, server_heads>>

Next ==
    \/ ReadMessageData
    \/ ReadMessageEof
    \/ ReadMessageIoError
    \/ HeaderTooLarge
    \/ ReadRequestDone
    \/ Route
    \/ Connect
    \/ ConnectFails
    \/ ProxyRequest
    \/ BodyStart
    \/ ChunkedRead
    \/ ChunkedDone
    \/ ContentLengthRead
    \/ ContentLengthDone
    \/ RelayEof
    \/ RelayReadError
    \/ RelayWriteError
    \/ BackendRespond
    \/ ReadResponseDone

Spec == Init /\ [][Next]_vars

\* ------------------------------------------------------------------------
\* Termination. The peers close when they choose to; the task takes its own
\* steps whenever it can: a read returns once bytes are in flight or the
\* peer has closed, a connect completes. The failures of a socket and the
\* bytes of the backend are the environment's and come when they come.
\* ------------------------------------------------------------------------
\* a connection whose client has sent its bytes and has not closed
FairInit ==
    /\ config \in Configs
    /\ pc = "read_request"
    /\ client_in \in ClientStreams
    /\ server_in = <<>>
    /\ client_out = <<>>
    /\ server_out = <<>>
    /\ buf = ZeroBuf(MAX_BUF_SIZE)
    /\ total_bytes_read = 0
    /\ recent_bytes_read = 0
    /\ request = NoRequest
    /\ remaining = <<>>
    /\ entry = 0
    /\ dialed = <<>>
    /\ direction = "ClientToServer"
    /\ headers = EmptyHeaders
    /\ body_buf = ZeroBuf(BodyBufSize)
    /\ bytes_read = 0
    /\ bytes_written = 0
    /\ length = 0
    /\ client_heads = <<>>
    /\ server_heads = <<>>
    /\ failure = "none"
    /\ closed = {}

\* the task holds a connection to the backend and has not started to wait
\* for the response (from then on BackendRespond is the backend's close)
Connected == pc \in {"proxy_request", "body", "chunked", "content_length"}

\* the client shuts down its side of the stream
ClientCloses ==
    /\ pc # "done"
    /\ "client" \notin closed
    /\ closed' = closed \cup {"client"}
    /\ UNCHANGED <<cfg_vars, pc, net_vars, hdr_vars, req_vars, body_vars, log_vars>>

\* the backend shuts down its side of the stream
ServerCloses ==
    /\ Connected
    /\ "server" \notin closed
    /\ closed' = closed \cup {"server"}
    /\ UNCHANGED <<cfg_vars, pc, net_vars, hdr_vars, req_vars, body_vars, log_vars>>

FairNext ==
    \/ ReadMessageData
    \/ ReadMessageEof
    \/ ReadMessageIoError
    \/ HeaderTooLarge
    \/ ReadRequestDone
    \/ Route
    \/ Connect
    \/ ConnectFails
    \/ ProxyRequest
    \/ BodyStart
    \/ ChunkedRead
    \/ ChunkedDone
    \/ ContentLengthRead
    \/ ContentLengthDone
    \/ RelayEof
    \/ RelayReadError
    \/ RelayWriteError
    \/ BackendRespond
    \/ ReadResponseDone
    \/ ClientCloses
    \/ ServerCloses

\* the steps the task takes by itself once they are possible
ProxySteps ==
    \/ ReadMessageData
    \/ ReadMessageEof
    \/ HeaderTooLarge
    \/ ReadRequestDone
    \/ Route
    \/ Connect
    \/ ProxyRequest
    \/ BodyStart
    \/ ChunkedRead
    \/ ChunkedDone
    \/ ContentLengthRead
    \/ ContentLengthDone
    \/ RelayEof
    \/ ReadResponseDone

FairSpec == FairInit /\ [][FairNext]_vars /\ WF_vars(ProxySteps)

\* ------------------------------------------------------------------------
\* The parser and the serializer on their own (lib.rs): Request::parse and
\* Response::parse applied to a buffer, into_bytes applied to a message.
\* buf is the slice handed to parse, request and remaining are what
\* Request::parse returns, client_heads gets what Response::parse returns,
\* failure is the HTTPParseError ("none" for Ok).
\* ------------------------------------------------------------------------
\* how many header lines a buffer, or headers a message, has at most
MaxHeaderLines == 2

HTTP11 == <<"H", "T", "T", "P", "/", "1", ".", "1">>

\* start lines of requests and of responses, well-formed and not
StartLines ==
    { <<>>,
      Get(<<"/">>),
      ReqLine(<<"P", "O", "S", "T">>, <<"/", "a">>, <<"H", "T", "T", "P", "/", "2">>),
      ReqLine(<<"G", "O", "T">>, <<"/">>, HTTP11),
      ReqLine(<<"G", "E", "T">>, <<"a">>, HTTP11),
      ReqLine(<<"G", "E", "T">>, <<"/", XFF>>, HTTP11),
      ReqLine(<<"G", "E", "T">>, <<"/">>, <<"H", "T", "T", "P", "/", "2", ".", "1">>),
      ReqLine(<<"G", "E", "T">>, <<"/", CR, LF, CR, LF, "x">>, HTTP11),
      <<"G", "E", "T", SP, "/">>,
      Ok200,
      StatusLine(<<"H", "T", "T", "P", "/", "3">>, <<"4", "0", "4">>, <<"N", "o", SP, "n", "o">>),
      StatusLine(HTTP11, <<"9", "9">>, <<"W", "H", "A", "T">>),
      StatusLine(<<"H", "T", "T", "P", "/", "1", ".", "1", "1">>, <<"2", "0", "0">>, <<"O", "K">>),
      <<"H", "T", "T", "P", "/", "1", ".", "1", SP, "2", "0", "0", SP>> }

\* header lines, well-formed and not
HeaderLineInputs ==
    { Hdr(<<"a">>, <<"b">>),
      <<"A", COLON, SP, SP, "c", HT, CR, LF>>,
      <<"a", COLON, "d", CR, LF>>,
      Hdr(<<"H", "o", "s", "t">>, <<"h", COLON, "8">>),
      <<"H", "o", "s", "t", CR, LF>>,
      Hdr(<<"a">>, <<XFF>>) }

\* the sequences of at most n header lines, concatenated
RECURSIVE HeaderBlocks(_)
HeaderBlocks(n) ==
    IF n = 0 THEN {<<>>}
    ELSE HeaderBlocks(n - 1) \cup {b \o l : b \in HeaderBlocks(n - 1), l \in HeaderLineInputs}

\* what follows the header lines: the blank line or not, then the tail
EndInputs ==
    { CRLF, CRLF \o <<"h", "i">>, CRLF \o <<CR, LF, CR, LF>>, <<>>, <<CR>>, <<"h", "i">>,
      <<"a", COLON, SP, "b", CR>> }

ParseInputs == {s \o b \o e : s \in StartLines, b \in HeaderBlocks(MaxHeaderLines), e \in EndInputs}

\* header names and values of the messages handed to into_bytes
HeaderNameInputs == {<<"a">>, <<"H", "o", "s", "t">>, to_lowercase(X_FORWARDED_FOR)}
HeaderValueInputs == {<<"b">>, ClientAddr}

\* the header maps with at most n headers
RECURSIVE HeaderMaps(_)
HeaderMaps(n) ==
    IF n = 0 THEN {EmptyHeaders}
    ELSE HeaderMaps(n - 1)
            \cup {Insert(h, k, v) : h \in HeaderMaps(n - 1), k \in HeaderNameInputs,
                                    v \in HeaderValueInputs}

\* well-formed Requests and Responses
RequestInputs ==
    [path : {<<"/">>, <<"/", "a">>}, method : {"GET", "POST"},
     headers : HeaderMaps(MaxHeaderLines), version : {"HTTP1_1", "HTTP2"}]

ResponseInputs ==
    [status : {200, 404}, version : {"HTTP1_1", "HTTP3"}, headers : HeaderMaps(MaxHeaderLines)]

\* the bytes that follow a serialized message in the buffer
ExtraInputs == {<<>>, <<"h", "i">>, <<CR, LF, CR, LF, "x">>}

ParserInit ==
    /\ config = <<>>
    /\ client_in = <<>>
    /\ server_in = <<>>
    /\ client_out = <<>>
    /\ server_out = <<>>
    /\ total_bytes_read = 0
    /\ recent_bytes_read = 0
    /\ entry = 0
    /\ dialed = <<>>
    /\ direction = "ClientToServer"
    /\ headers = EmptyHeaders
    /\ body_buf = <<>>
    /\ bytes_read = 0
    /\ bytes_written = 0
    /\ length = 0
    /\ failure = "none"
    /\ closed = {}
    /\ \/ /\ pc = "parse"
          /\ buf \in ParseInputs
          /\ request = NoRequest
          /\ remaining = <<>>
          /\ client_heads = <<>>
          /\ server_heads = <<>>
       \/ /\ pc = "request_into_bytes"
          /\ buf = <<>>
          /\ request \in RequestInputs
          /\ remaining \in ExtraInputs
          /\ client_heads = <<>>
          /\ server_heads = <<>>
       \/ /\ pc = "response_into_bytes"
          /\ buf = <<>>
          /\ request = NoRequest
          /\ remaining \in ExtraInputs
          /\ \E r \in ResponseInputs :
                client_heads = <<[origin |-> "input", response |-> r,
                                  head |-> <<>>, body |-> <<>>]>>
          /\ server_heads = <<>>

\* r.into_bytes() ++ extra for a Request r; r and its bytes are kept in server_heads
SerializeRequest ==
    /\ pc = "request_into_bytes"
    /\ \E order \in IterOrders(request.headers) :
          LET head == RequestIntoBytes(request, order)
          IN  /\ buf' = head \o remaining
              /\ server_heads' = <<[request |-> request, peer_addr_ok |-> FALSE,
                                    head |-> head, body |-> remaining]>>
    /\ pc' = "parse"
    /\ UNCHANGED <<cfg_vars, closed, net_vars, total_bytes_read, recent_bytes_read, req_vars,
                   body_vars, client_heads, failure>>

\* r.into_bytes() ++ extra for a Response r
SerializeResponse ==
    /\ pc = "response_into_bytes"
    /\ \E order \in IterOrders(client_heads[1].response.headers) :
          LET head == ResponseIntoBytes(client_heads[1].response, order)
          IN  /\ buf' = head \o remaining
              /\ client_heads' = <<[client_heads[1] EXCEPT !.head = head, !.body = remaining]>>
    /\ pc' = "parse"
    /\ UNCHANGED <<cfg_vars, closed, net_vars, total_bytes_read, recent_bytes_read, req_vars,
                   body_vars, server_heads, failure>>

\* Request::parse(buf)
ParseRequest ==
    /\ pc = "parse"
    /\ LET r == RequestParse(buf)
       IN  IF r.ok
           THEN request' = r.msg /\ remaining' = r.rest /\ failure' = "none"
           ELSE request' = NoRequest /\ remaining' = <<>> /\ failure' = r.err
    /\ pc' = "request_parsed"
    /\ UNCHANGED <<cfg_vars, closed, net_vars, hdr_vars, entry, dialed, body_vars, client_heads,
                   server_heads>>

\* Response::parse(buf)
ParseResponse ==
    /\ pc = "parse"
    /\ LET r == ResponseParse(buf)
       IN  IF r.ok
           THEN /\ client_heads' = Append(client_heads,
                                          [origin |-> "parse", response |-> r.msg,
                                           head |-> Take(buf, Len(buf) - Len(r.rest)),
                                           body |-> r.rest])
                /\ remaining' = r.rest
                /\ failure' = "none"
           ELSE /\ UNCHANGED client_heads
                /\ remaining' = <<>>
                /\ failure' = r.err
    /\ pc' = "response_parsed"
    /\ UNCHANGED <<cfg_vars, closed, net_vars, hdr_vars, request, entry, dialed, body_vars,
                   server_heads>>

\* parse_headers(buf)
ParseHeaders ==
    /\ pc = "parse"
    /\ LET r == parse_headers(buf)
       IN  IF r.ok
           THEN headers' = r.headers /\ remaining' = r.rest /\ failure' = "none"
           ELSE headers' = EmptyHeaders /\ remaining' = <<>> /\ failure' = r.err
    /\ pc' = "headers_parsed"
    /\ UNCHANGED <<cfg_vars, closed, net_vars, hdr_vars, request, entry, dialed, direction, body_buf,
                   bytes_read, bytes_written, length, client_heads, server_heads>>

ParserNext ==
    \/ SerializeRequest
    \/ SerializeResponse
    \/ ParseRequest
    \/ ParseResponse
    \/ ParseHeaders

ParserSpec == ParserInit /\ [][ParserNext]_vars

\* ------------------------------------------------------------------------
\* Observers: what a peer sees on the wire
\* ------------------------------------------------------------------------
\* the lines of a message head, split at every CRLF
RECURSIVE SplitCrlf(_, _)
SplitCrlf(bytes, line) ==
    IF bytes = <<>> THEN (IF line = <<>> THEN <<>> ELSE <<line>>)
    ELSE IF CrlfAt(bytes, 1) THEN <<line>> \o SplitCrlf(Drop(bytes, 2), <<>>)
    ELSE SplitCrlf(Tail(bytes), Append(line, Head(bytes)))

\* the header lines of a head: the lines after the start line, up to the blank line
WireHeaderLines(head) ==
    LET lines == SplitCrlf(head, <<>>)
    IN  SelectSeq(SubSeq(lines, 2, Len(lines)), LAMBDA l : l # <<>>)

\* the name of a header line is what precedes its first ':'
WireName(line) ==
    IF \E i \in 1..Len(line) : line[i] = COLON
    THEN Take(line, (CHOOSE i \in 1..Len(line) :
                        line[i] = COLON /\ \A j \in 1..(i - 1) : line[j] # COLON) - 1)
    ELSE line

\* the value is the rest of the line, without the surrounding whitespace
WireValue(line) == trim(Drop(line, Len(WireName(line)) + 1))

\* the header lines of a head whose name is the given one, letter case aside
WireHeadersNamed(head, name) ==
    LET lines == WireHeaderLines(head)
    IN  {i \in 1..Len(lines) : to_lowercase(WireName(lines[i])) = to_lowercase(name)}

\* the head has a header line  name: value  (name and value compared letter case aside)
HasWireHeader(head, name, value) ==
    \E i \in WireHeadersNamed(head, name) :
        to_lowercase(WireValue(WireHeaderLines(head)[i])) = to_lowercase(value)

\* the routes in the order they were configured
ConfiguredOrder == [i \in 1..Len(config) |-> i]

\* the path with its leading prefix removed, '/' prepended when needed
WithoutLeadingPrefix(path, prefix) ==
    LET rest == Drop(path, Len(prefix))
    IN  IF StartsWith(rest, <<"/">>) THEN rest ELSE <<"/">> \o rest

\* the header map with every name lowercased
LowerKeys(h) ==
    [k \in {to_lowercase(x) : x \in DOMAIN h} |->
        h[CHOOSE x \in DOMAIN h : to_lowercase(x) = k]]

\* the bytes the body relay loop has written to the receiver so far
Relayed ==
    IF direction = "ClientToServer"
    THEN Drop(server_out, Len(server_heads[1].head) + Len(server_heads[1].body))
    ELSE Drop(client_out, Len(client_heads[1].head) + Len(client_heads[1].body))

NOT_FOUND_BODY == <<"N", "o", "t", SP, "F", "o", "u", "n", "d">>

\* ------------------------------------------------------------------------
\* Claims
\* ------------------------------------------------------------------------

\* C1: the backend that is dialed is the one of the first route, in the order
\* the routes were configured, whose prefix is a prefix of the request path.
C1_DialsFirstConfiguredMatch ==
    [][pc = "connect" =>
          dialed' = Append(dialed,
                           config[SelectEntry(config, ConfiguredOrder, request.path)].addr)]_vars

\* C2: in the header-read loop, once buf[..total_bytes_read] contains
\* CR LF CR LF no further read is issued, however the bytes were split into reads.
C2_NoReadAfterTerminator ==
    [][(ReadingHeader /\ is_terminated(Take(buf, total_bytes_read))) =>
          ~(ReadMessageData \/ ReadMessageEof \/ ReadMessageIoError)]_vars

\* C3: when a route with strip_prefix is selected, the path sent to the
\* backend is the request path without its leading prefix only (later
\* occurrences of the prefix are kept), with '/' prepended when needed.
C3_StripsLeadingPrefixOnly ==
    [][(pc = "connect" /\ pc' = "proxy_request" /\ config[entry].strip_prefix) =>
          request'.path = WithoutLeadingPrefix(request.path, config[entry].prefix)]_vars

\* C4: when the peer address is available, the request head written to the
\* backend has exactly one X-Forwarded-For header, letter case aside, and its
\* value is the client's ip:port.
C4_OneForwardedFor ==
    \A i \in DOMAIN server_heads :
        server_heads[i].peer_addr_ok =>
            LET xs == WireHeadersNamed(server_heads[i].head, X_FORWARDED_FOR)
            IN  /\ Cardinality(xs) = 1
                /\ \A j \in xs : WireValue(WireHeaderLines(server_heads[i].head)[j]) = ClientAddr

\* C5: every response head written to the client, generated by the proxy or
\* relayed from the backend, has a Connection: close header.
C5_EveryResponseClosesConnection ==
    \A i \in DOMAIN client_heads : HasWireHeader(client_heads[i].head, CONNECTION, CLOSE)

\* C6: every error response generated by the proxy has Connection: close and
\* a Content-Length equal to the length of the body sent with it, and the 404
\* response has the body "Not Found".
C6_ErrorResponsesAreFramed ==
    \A i \in DOMAIN client_heads :
        client_heads[i].origin = "proxy" =>
            /\ HasWireHeader(client_heads[i].head, CONNECTION, CLOSE)
            /\ \E j \in WireHeadersNamed(client_heads[i].head, CONTENT_LENGTH) :
                  parse_usize(WireValue(WireHeaderLines(client_heads[i].head)[j]))
                      = Len(client_heads[i].body)
            /\ client_heads[i].response.status = 404 => client_heads[i].body = NOT_FOUND_BODY

\* the header map has a header of the given name, letter case aside
CarriesHeader(h, name) == \E k \in DOMAIN h : to_lowercase(k) = to_lowercase(name)

\* C7: a routed HTTP/1.1 request with both a Content-Length and a
\* Transfer-Encoding header is rejected and the client is answered 400.
C7_BothFramingHeadersRejected ==
    [][(/\ pc = "body"
        /\ direction = "ClientToServer"
        /\ CarriesHeader(headers, CONTENT_LENGTH)
        /\ CarriesHeader(headers, TRANSFER_ENCODING)) =>
          /\ pc' = "done"
          /\ Len(client_heads') = Len(client_heads) + 1
          /\ client_heads'[Len(client_heads')].response.status = 400]_vars

\* C8: header names are stored lowercased, so the framing decision does not
\* depend on the letter case of the names of the framing headers.
C8_FramingIgnoresLetterCase ==
    pc = "body" => Framing(headers, remaining) = Framing(LowerKeys(headers), remaining)

\* C9: with content-length: N and no transfer-encoding, a relay that returns
\* success has delivered exactly N body bytes, the residual bytes included.
C9_RelaysExactlyContentLength ==
    (pc = "content_length" /\ ~ContentLengthLoopContinues) =>
        /\ bytes_written = length
        /\ Len(remaining) + Len(Relayed) = length

\* C10: the chunked relay loop stops exactly when the stream relayed so far
\* contains CR LF CR LF, and not before.
C10_ChunkedStopsAtTerminator ==
    pc = "chunked" => (~ChunkedLoopContinues <=> is_terminated(Relayed))

\* the message has no content-length and no transfer-encoding header, letter case aside
Unframed(h) == ~CarriesHeader(h, CONTENT_LENGTH) /\ ~CarriesHeader(h, TRANSFER_ENCODING)

\* C11: with neither framing header, the response relay does not return
\* success while the backend still has bytes to deliver (it copies until the
\* backend's read returns 0), and the request relay reads nothing from the client.
C11_UnframedResponseReadUntilClose ==
    [][(pc = "body" /\ Unframed(headers)) =>
          IF direction = "ServerToClient"
          THEN server_in # <<>> => ~(pc' = "done" /\ failure' = "none")
          ELSE client_in' = client_in]_vars

\* the task has ended and the last thing the client was sent is the proxy's
\* error response with this status
Answered(status) ==
    /\ pc = "done"
    /\ client_heads # <<>>
    /\ client_heads[Len(client_heads)].origin = "proxy"
    /\ client_heads[Len(client_heads)].response.status = status

\* ... and it is all the client was sent, and no backend was dialed
AnsweredOnly(status) ==
    /\ Answered(status)
    /\ Len(client_heads) = 1
    /\ dialed = <<>>
    /\ server_out = <<>>

\* C12: when the client has filled the whole header buffer and the buffer
\* does not contain CR LF CR LF, the client is answered 431 and no backend is
\* dialed; when the terminator ends at the last byte of the buffer the head
\* is handed to the parser.
C12_FullBufferIsHeaderTooLarge ==
    [][(pc = "read_request" /\ total_bytes_read = MAX_BUF_SIZE) =>
          /\ ~is_terminated(buf) => (AnsweredOnly(431)' /\ failure' = "header_too_large")
          /\ is_terminated(SubSeq(buf, MAX_BUF_SIZE - 3, MAX_BUF_SIZE)) =>
                (failure' # "header_too_large" /\ (pc' = "route" \/ Answered(400)'))]_vars

C12_Witness ==
    /\ AnsweredOnly(431)
    /\ failure = "header_too_large"

\* C13: when the client's stream ends before the loop has seen the terminator,
\* or the request parser rejects the head, the client is answered 400 and no
\* backend is dialed.
C13_EofAndParseErrorsAre400 ==
    [][(pc = "read_request" /\ failure' # "client_io") =>
          /\ (HeaderLoopContinues /\ total_bytes_read < MAX_BUF_SIZE /\ client_in = <<>>) =>
                AnsweredOnly(400)'
          /\ (~HeaderLoopContinues /\ ~RequestParse(Take(buf, total_bytes_read)).ok) =>
                AnsweredOnly(400)']_vars

C13_Witness ==
    /\ AnsweredOnly(400)
    /\ failure = "client_eof"

\* C14: a request whose version is not HTTP/1.1 is answered 505 and nothing is
\* dialed or forwarded, also when a route matches its path.
C14_OtherVersionsAre505 ==
    [][(pc = "route" /\ request.version # "HTTP1_1") => AnsweredOnly(505)']_vars

\* some configured prefix is a prefix of the path
RouteMatches(path) == \E i \in DOMAIN config : StartsWith(path, config[i].prefix)

C14_Witness ==
    /\ AnsweredOnly(505)
    /\ request.version = "HTTP2"
    /\ RouteMatches(request.path)

\* C15: a well-formed HTTP/1.1 request is answered 404 if and only if no
\* configured prefix is a prefix of its path, and then no backend is dialed.
C15_NotFoundIffNoRoute ==
    [][IF pc = "route" /\ request.version = "HTTP1_1"
       THEN ~RouteMatches(request.path) <=> AnsweredOnly(404)'
       ELSE \A i \in DOMAIN client_heads' : client_heads'[i].response.status = 404 =>
                i \in DOMAIN client_heads]_vars

C15_Witness ==
    /\ AnsweredOnly(404)
    /\ config # <<>>

\* the value of the header of this name, letter case aside
HeaderValue(h, name) == h[CHOOSE k \in DOMAIN h : to_lowercase(k) = to_lowercase(name)]

\* The sender of the message being relayed closes before the body its headers
\* frame is complete: fewer bytes than its content-length, or no terminator
\* of its chunked body, are on the way
SenderClosesEarly ==
    LET body == remaining \o Relayed \o Sender
    IN  \/ /\ CarriesHeader(headers, CONTENT_LENGTH)
           /\ ~CarriesHeader(headers, TRANSFER_ENCODING)
           /\ parse_usize(HeaderValue(headers, CONTENT_LENGTH)) > Len(body)
        \/ /\ CarriesHeader(headers, TRANSFER_ENCODING)
           /\ ~CarriesHeader(headers, CONTENT_LENGTH)
           /\ is_chunked(HeaderValue(headers, TRANSFER_ENCODING))
           /\ ~is_terminated(body)

\* C16: after a route is selected every backend-side failure is answered 502:
\* the connect fails, the write of the request fails, the head of the
\* response cannot be read or parsed, or the sender closes before the framed
\* body is complete.
C16_BackendFailuresAre502 ==
    [][/\ (pc \in {"connect", "proxy_request", "read_response"} /\ pc' = "done") =>
              Answered(502)'
       /\ (pc \in {"body", "chunked", "content_length"} /\ SenderClosesEarly
           /\ pc' \in {"await_response", "done"}) =>
              Answered(502)']_vars

\* the bytes that were taken off a stream in a step
Consumed(before, after) == Take(before, Len(before) - Len(after))

\* the head of a message on the wire: its bytes up to the first blank line
WireHead(bytes) ==
    Take(bytes, CHOOSE i \in 4..Len(bytes) :
                    /\ SubSeq(bytes, i - 3, i) = CRLF \o CRLF
                    /\ \A j \in 4..(i - 1) : SubSeq(bytes, j - 3, j) # CRLF \o CRLF)

\* the headers of a head on the wire: the names, letter case aside, with their values
WireHeaders(head) ==
    {<<to_lowercase(WireName(l)), WireValue(l)>> :
        l \in {WireHeaderLines(head)[i] : i \in DOMAIN WireHeaderLines(head)}}

\* the status code of a response head on the wire: the second word of its first line
WireStatus(head) == parse_until_space(Drop(head, Len(parse_until_space(head)) + 1))

\* C20: the byte streams are preserved in order. What is read from the client
\* goes to the header buffer and then, after the serialized request head, to
\* the backend as the residual and the relayed bytes, each byte once and in
\* order; what is read from the backend reaches the client in the same way,
\* after a response head with the backend's status and headers.
C20_StreamsPreservedInOrder ==
    [][pc' # "done" =>
          /\ (pc \in {"read_request", "read_response"} /\ pc' = pc) =>
                Take(buf', total_bytes_read') =
                    Take(buf, total_bytes_read)
                        \o Consumed(client_in, client_in') \o Consumed(server_in, server_in')
          /\ (pc = "proxy_request" /\ pc' = "body") =>
                \E order \in IterOrders(request'.headers) :
                    server_out' = RequestIntoBytes(request', order) \o remaining
          /\ (pc = "read_response" /\ pc' = "body") =>
                LET raw == Take(buf, total_bytes_read)
                    sent == client_heads'[Len(client_heads')]
                IN  /\ client_out' = sent.head \o sent.body
                    /\ sent.body = Drop(raw, Len(WireHead(raw)))
                    /\ WireStatus(sent.head) = WireStatus(raw)
                    /\ WireHeaders(sent.head) = WireHeaders(WireHead(raw))
          /\ pc \in {"chunked", "content_length"} =>
                /\ server_out' = server_out \o Consumed(client_in, client_in')
                /\ client_out' = client_out \o Consumed(server_in, server_in')]_vars

\* Request::parse or Response::parse has returned Ok for buf
ParsedOk == pc \in {"request_parsed", "response_parsed"} /\ failure = "none"

\* the bytes of buf that the parser consumed: all but the tail it returned
ConsumedByParse == Take(buf, Len(buf) - Len(remaining))

\* C17: when Request::parse or Response::parse succeeds, the bytes it consumed
\* are the prefix of the buffer that ends with the first CR LF CR LF of the
\* buffer, and the tail is what follows it.
C17_ParseConsumesFirstBlankLine ==
    ParsedOk =>
        /\ is_terminated(buf)
        /\ ConsumedByParse = WireHead(buf)
        /\ remaining = Drop(buf, Len(WireHead(buf)))

\* the headers under case-insensitive key comparison and value trimming
NormalHeaders(h) == {<<to_lowercase(k), trim(h[k])>> : k \in DOMAIN h}

\* C18: for a well-formed Request r and bytes extra, parsing
\* r.into_bytes() ++ extra succeeds with the tail extra and a request with the
\* method, path and version of r and the same headers (keys compared letter
\* case aside, values trimmed); likewise for a Response.
C18_ParseInvertsIntoBytes ==
    /\ (pc = "request_parsed" /\ server_heads # <<>>) =>
          /\ failure = "none"
          /\ remaining = server_heads[1].body
          /\ request.method = server_heads[1].request.method
          /\ request.path = server_heads[1].request.path
          /\ request.version = server_heads[1].request.version
          /\ NormalHeaders(request.headers) = NormalHeaders(server_heads[1].request.headers)
    /\ (pc = "response_parsed" /\ client_heads # <<>> /\ client_heads[1].origin = "input") =>
          /\ failure = "none"
          /\ Len(client_heads) = 2
          /\ remaining = client_heads[1].body
          /\ client_heads[2].response.status = client_heads[1].response.status
          /\ client_heads[2].response.version = client_heads[1].response.version
          /\ NormalHeaders(client_heads[2].response.headers)
                = NormalHeaders(client_heads[1].response.headers)

\* the headers the parser returned
ParsedHeaders ==
    IF pc = "request_parsed" THEN request.headers
    ELSE client_heads[Len(client_heads)].response.headers

\* the header lines the parser consumed: the lines between the start line and
\* the blank line
ParsedHeaderLines ==
    LET start == IF pc = "request_parsed"
                 THEN Len(MethodDebug(request.method)) + 1 + Len(request.path) + 1
                          + Len(VersionDisplay(request.version)) + 2
                 ELSE Len(parse_until_crlf(buf)) + 2
    IN  SelectSeq(SplitCrlf(Drop(ConsumedByParse, start), <<>>), LAMBDA l : l # <<>>)

\* C19: in a successfully parsed header map no name contains ':': the name of
\* a header is what precedes the first ':' of its line and its value is the
\* rest of the line, trimmed (a later line of the same name overwrites).
C19_NameEndsAtFirstColon ==
    ParsedOk =>
        /\ \A k \in DOMAIN ParsedHeaders : \A i \in DOMAIN k : k[i] # COLON
        /\ DOMAIN ParsedHeaders = {WireName(ParsedHeaderLines[i]) : i \in DOMAIN ParsedHeaderLines}
        /\ \A i \in DOMAIN ParsedHeaderLines :
              (\A j \in DOMAIN ParsedHeaderLines : j > i =>
                    WireName(ParsedHeaderLines[j]) # WireName(ParsedHeaderLines[i])) =>
                 ParsedHeaders[WireName(ParsedHeaderLines[i])] = WireValue(ParsedHeaderLines[i])

\* C21: when a read or a write on the client socket fails with an I/O error
\* that is not end-of-stream (in the header read, the request body relay or
\* the write of the response), nothing is written to the client and the task ends.
C21_ClientIoErrorsAreSilent ==
    [][(failure = "none" /\ failure' = "client_io") =>
          (pc' = "done" /\ client_out' = client_out)]_vars

\* C24: at most one backend connection is opened per client connection, and
\* only for a parsed HTTP/1.1 request and a route whose prefix matched; after
\* the attempt no other route is tried and no 404 is sent.
C24_OneDialAfterRouting ==
    [][/\ Len(dialed') <= 1
       /\ dialed' # dialed =>
             /\ dialed = <<>>
             /\ request.version = "HTTP1_1"
             /\ RequestParse(buf).ok
             /\ RequestParse(buf).msg = request
             /\ entry \in DOMAIN config
             /\ StartsWith(request.path, config[entry].prefix)
             /\ dialed' = <<config[entry].addr>>
       /\ dialed' # <<>> =>
             /\ entry' = entry
             /\ \A i \in DOMAIN client_heads' : client_heads'[i].response.status # 404]_vars

C24_Witness ==
    /\ pc = "done"
    /\ Len(dialed) = 1
    /\ Cardinality({i \in DOMAIN config : StartsWith(request.path, config[i].prefix)}) = 2

\* C25: the client is sent at most one response head: once bytes of the
\* backend's response were written to it, no error response of the proxy follows.
C25_OneResponseHead ==
    Len(client_heads) <= 1

\* C26: a request that is answered 400 was not forwarded: no byte of it was
\* written to a backend.
C26_BadRequestsAreNotForwarded ==
    (\E i \in DOMAIN client_heads :
        client_heads[i].origin = "proxy" /\ client_heads[i].response.status = 400)
            => server_out = <<>>

\* C28: in the header-read loop total_bytes_read never exceeds the capacity
\* of the buffer, every successful read makes it grow, and no read is issued
\* into a full buffer.
C28_HeaderReadIsBounded ==
    [][/\ total_bytes_read' <= MAX_BUF_SIZE
       /\ (ReadingHeader /\ pc' = pc) =>
             /\ total_bytes_read < MAX_BUF_SIZE
             /\ total_bytes_read' > total_bytes_read
             /\ recent_bytes_read' = total_bytes_read' - total_bytes_read
             /\ Len(client_in') + Len(server_in') < Len(client_in) + Len(server_in)]_vars

C28_Witness ==
    /\ ReadingHeader
    /\ total_bytes_read = MAX_BUF_SIZE
    /\ HeaderLoopContinues

\* C27: Request::parse and Response::parse are total: on every buffer they
\* return a message with its tail or an HTTPParseError, and never index the
\* buffer out of range.
C27_ParseIsTotal ==
    pc \in {"request_parsed", "response_parsed"} => failure \in {"none"} \cup HTTPParseError

\* the index of the CRLF that is the blank line of a header block: the first
\* CRLF at the start of the buffer or right after another CRLF; 0 when none
BlankLineAt(b) ==
    LET S == {i \in 1..Len(b) : CrlfAt(b, i) /\ (i = 1 \/ (i > 2 /\ CrlfAt(b, i - 2)))}
    IN  IF S = {} THEN 0 ELSE CHOOSE i \in S : \A j \in S : i <= j

\* the lines of a header block that reach their CRLF, up to the blank line
BlockLines(b) ==
    LET end == IF BlankLineAt(b) = 0 THEN Len(b) ELSE BlankLineAt(b) - 1
        last == IF \E i \in 1..(end - 1) : CrlfAt(b, i)
                THEN CHOOSE i \in 1..(end - 1) :
                        CrlfAt(b, i) /\ \A j \in (i + 1)..(end - 1) : ~CrlfAt(b, j)
                ELSE 0
    IN  IF last = 0 THEN <<>> ELSE SplitCrlf(Take(b, last + 1), <<>>)

HasColon(line) == \E i \in DOMAIN line : line[i] = COLON

\* situation 1: a line before the blank line reaches its CRLF without a ':'
LineWithoutColon(b) == \E i \in DOMAIN BlockLines(b) : ~HasColon(BlockLines(b)[i])

\* situation 2: the buffer is exhausted before a line that begins with CRLF
NoBlankLine(b) == BlankLineAt(b) = 0

\* name and value of a complete header line
LineKey(line) == parse_header(line \o CRLF).key
LineValue(line) == parse_header(line \o CRLF).value

\* what parse_headers returned is UnterminatedHeader exactly in the two
\* situations, and otherwise the map of the lines and the tail
HeadersParsedAsClaimed ==
    /\ failure = "UnterminatedHeader" <=> (LineWithoutColon(buf) \/ NoBlankLine(buf))
    /\ ~(LineWithoutColon(buf) \/ NoBlankLine(buf)) =>
          LET lines == BlockLines(buf)
          IN  /\ failure = "none"
              /\ remaining = Drop(buf, BlankLineAt(buf) + 1)
              /\ DOMAIN headers = {LineKey(lines[i]) : i \in DOMAIN lines}
              /\ \A i \in DOMAIN lines :
                    (\A j \in DOMAIN lines : j > i => LineKey(lines[j]) # LineKey(lines[i]))
                        => headers[LineKey(lines[i])] = LineValue(lines[i])

BlockIsUtf8(b) == IsUtf8(IF BlankLineAt(b) = 0 THEN b ELSE Take(b, BlankLineAt(b)))

BlockedInRead ==
    \/ /\ pc = "read_request"
       /\ HeaderLoopContinues
       /\ total_bytes_read < MAX_BUF_SIZE
       /\ client_in = <<>>
       /\ "client" \notin closed
    \/ /\ pc \in {"await_response", "read_response"}
       /\ HeaderLoopContinues
       /\ total_bytes_read < MAX_BUF_SIZE
       /\ server_in = <<>>
       /\ "server" \notin closed
    \/ /\ RelayLoopContinues
       /\ Sender = <<>>
       /\ SenderName \notin closed

\* C22: once the client or the backend has closed its stream the task
\* eventually terminates, at whatever stage it is, its own steps being taken
\* when they are possible: with one peer closed the task is never left
\* waiting in a read that only the other peer can end (there no step of the
\* task is possible, and it stays for as long as that peer is silent).
C22_NoBlockedReadAfterClose ==
    closed # {} => ~BlockedInRead

====
